---- MODULE Spec2Model ----
(***************************************************************************)
(* Lost-and-found application with a wallet marketplace (app.py,           *)
(* vercel_app.py, models.py, init_db.py).                                  *)
(*                                                                         *)
(* The store is the relational schema of models.py; every HTTP handler is  *)
(* an action.  Handlers whose reads and writes can interleave with other   *)
(* requests (buy_item, register) are split at their store accesses; the    *)
(* other handlers are one step each.                                       *)
(***************************************************************************)
EXTENDS Integers, Sequences, FiniteSets, TLC

\* ------------------------------------------------------------------ bounds
MaxBal   == 2    \* wallet balances first stored range over 0..MaxBal
MaxPrice == 1    \* prices of market_items range over 1..MaxPrice

\* The marketplace and listings scenarios: three users (a seller and two
\* others), two browser sessions whose requests interleave, two market_items.
UserIds   == {1, 2, 3}
Clients   == {1, 2}
MarketIds == {1, 2}
\* ids a purchase request may name: the rows, and one id that has no row
MarketReqIds == MarketIds \cup {3}

VARIABLES
    users,          \* users table: id -> row
    items,          \* items table (lost/found posts): id -> row
    notifications,  \* notifications table: set of rows
    market,         \* market_items table: id -> row
    orders,         \* orders table: set of rows
    payments,       \* payments table: set of rows
    session,        \* Flask-Login session of each client: user id, 0 = anonymous
    pc,             \* each client's position in the handler it is running
    rq,             \* each client's request-local state (its ORM session)
    resp,           \* each client's last response
    initial         \* history: wallets and market_items as first stored

vars == <<users, items, notifications, market, orders, payments,
          session, pc, rq, resp, initial>>

store == <<users, items, notifications, market, orders, payments>>

\* ------------------------------------------------------------- rows, helpers
NoRq   == [op |-> "none"]
NoResp == [op |-> "none"]

\* werkzeug generate_password_hash / check_password_hash: a salted digest that
\* verifies exactly the password it was made from.
generate_password_hash(password) == <<"pbkdf2", password>>

check_password_hash(pwhash, password) == pwhash = generate_password_hash(password)

\* A users row; the columns the handlers read or write.
User(username, email, password, wallet_balance) ==
    [username |-> username, email |-> email,
     password_hash |-> generate_password_hash(password),
     wallet_balance |-> wallet_balance]

RECURSIVE SumWallets(_, _)
SumWallets(u, ids) ==
    IF ids = {} THEN 0
    ELSE LET i == CHOOSE x \in ids : TRUE
         IN  u[i].wallet_balance + SumWallets(u, ids \ {i})

TotalWallets(u) == SumWallets(u, DOMAIN u)

\* Columns and relationship attributes of the mapped classes.  The declarative
\* constructor of a db.Model accepts a keyword only if the class has an
\* attribute of that name and raises TypeError otherwise.
OrderAttrs ==
    {"id", "amount", "status", "created_at", "updated_at",
     "buyer_id", "seller_id", "item_id", "buyer", "seller"}

\* Variant of PaymentAttrs: a Payment class that also has an "order" relationship.
PaymentAttrsWithOrder ==
    {"id", "amount", "payment_method", "status", "transaction_id",
     "completed_at", "created_at", "order_id", "order"}

PaymentAttrs ==
    {"id", "amount", "payment_method", "status", "transaction_id",
     "completed_at", "created_at", "order_id"}

\* Keywords buy_item passes to Order(...) and Payment(...).
OrderKwargs == {"item_id", "buyer_id", "seller_id", "amount", "status"}

\* Variant of PaymentKwargs: the Payment built with order_id.
PaymentKwargsWithOrderId ==
    {"order_id", "amount", "payment_method", "status", "completed_at"}

PaymentKwargs == {"order", "amount", "payment_method", "status", "completed_at"}

\* ------------------------------------------------------------- marketplace
\* Variants of BuyCheck: the funds check moved first, the status check
\* narrowed to "reserved", the funds comparison inverted.
BuyCheckFundsFirst(item, user) ==
    IF user.wallet_balance < item.price THEN "Insufficient wallet balance."
    ELSE IF item.status # "available" THEN "This item is no longer available."
    ELSE IF item.seller_id = user.id THEN "You cannot buy your own item."
    ELSE ""

BuyCheckReservedOnly(item, user) ==
    IF item.status = "reserved" THEN "This item is no longer available."
    ELSE IF item.seller_id = user.id THEN "You cannot buy your own item."
    ELSE IF user.wallet_balance < item.price THEN "Insufficient wallet balance."
    ELSE ""

BuyCheckFundsInverted(item, user) ==
    IF item.status # "available" THEN "This item is no longer available."
    ELSE IF item.seller_id = user.id THEN "You cannot buy your own item."
    ELSE IF user.wallet_balance > item.price THEN "Insufficient wallet balance."
    ELSE ""

\* buy_item's three precondition checks on the rows the request has loaded;
\* "" when all pass.
BuyCheck(item, user) ==
    IF item.status # "available" THEN "This item is no longer available."
    ELSE IF item.seller_id = user.id THEN "You cannot buy your own item."
    ELSE IF user.wallet_balance < item.price THEN "Insufficient wallet balance."
    ELSE ""

BuyResp(c, item_id, status, flash) ==
    [op |-> "buy_item", user |-> rq[c].user.id, item_id |-> item_id,
     status |-> status, flash |-> flash]

\* @login_required on buy_item: Flask-Login loads current_user (load_user)
\* into the request's ORM session; its wallet_balance is read here and not
\* refreshed later in the request.
BuyBegin(c, item_id) ==
    /\ pc[c] = "idle"
    /\ session[c] # 0
    /\ pc' = [pc EXCEPT ![c] = "buy_get"]
    /\ rq' = [rq EXCEPT ![c] =
                [op |-> "buy_item", item_id |-> item_id,
                 user |-> [id |-> session[c],
                           wallet_balance |-> users[session[c]].wallet_balance],
                 sold_at_begin |-> (item_id \in DOMAIN market
                                     /\ market[item_id].status = "sold")]]
    /\ resp' = [resp EXCEPT ![c] = NoResp]
    /\ UNCHANGED <<store, session, initial>>

\* MarketItem.query.get_or_404 and the three checks on the loaded rows.
BuyGet(c) ==
    /\ pc[c] = "buy_get"
    /\ LET item_id == rq[c].item_id IN
       IF item_id \notin DOMAIN market
       THEN /\ pc' = [pc EXCEPT ![c] = "idle"]
            /\ resp' = [resp EXCEPT ![c] = BuyResp(c, item_id, 404, "")]
            /\ rq' = [rq EXCEPT ![c] = NoRq]
       ELSE LET item == market[item_id]
                flash == BuyCheck(item, rq[c].user)
            IN  IF flash # ""
                THEN /\ pc' = [pc EXCEPT ![c] = "idle"]
                     /\ resp' = [resp EXCEPT ![c] = BuyResp(c, item_id, 302, flash)]
                     /\ rq' = [rq EXCEPT ![c] = NoRq]
                ELSE /\ pc' = [pc EXCEPT ![c] = "buy_try"]
                     /\ rq' = [rq EXCEPT ![c] =
                                 [rq[c] EXCEPT !.op = "buy_item"] @@ [item |-> item]]
                     /\ UNCHANGED resp
    /\ UNCHANGED <<store, session, initial>>

\* The try block of buy_item.  Order(...) and Payment(...) are constructed
\* first; a rejected keyword raises, the handler rolls back (nothing was
\* written) and flashes the generic error.  Otherwise the wallet of the buyer
\* is written from the balance loaded at the start of the request, the
\* seller row is loaded through item.seller and credited, the item is marked
\* sold and the Order and Payment rows are inserted in one commit.
\* Variant of BuyTry: a purchase that commits an Order whose seller is the
\* buyer and whose amount is the buyer's balance.
BuyTryOrderOfBuyer(c) ==
    /\ pc[c] = "buy_try"
    /\ LET r == rq[c]
           order_id == Cardinality(orders) + 1
       IN  /\ market' = [market EXCEPT ![r.item_id].status = "sold"]
           /\ orders' = orders \cup
                {[id |-> order_id, item_id |-> r.item_id, buyer_id |-> r.user.id,
                  seller_id |-> r.user.id, amount |-> r.user.wallet_balance,
                  status |-> "completed"]}
           /\ payments' = payments \cup
                {[id |-> Cardinality(payments) + 1, order_id |-> order_id,
                  amount |-> r.item.price, payment_method |-> "wallet",
                  status |-> "completed"]}
           /\ resp' = [resp EXCEPT ![c] =
                         BuyResp(c, r.item_id, 302, "Purchase successful!")]
    /\ pc' = [pc EXCEPT ![c] = "idle"]
    /\ rq' = [rq EXCEPT ![c] = NoRq]
    /\ UNCHANGED <<users, items, notifications, session, initial>>

\* Variant of BuyTry: a purchase that commits, with the debit and the credit
\* applied to the balances the store holds at the commit.
BuyTryRelativeDebit(c) ==
    /\ pc[c] = "buy_try"
    /\ LET r == rq[c]
           item == r.item
           buyer == r.user.id
           seller == item.seller_id
           order_id == Cardinality(orders) + 1
       IN  /\ users' = [u \in DOMAIN users |->
                          [users[u] EXCEPT !.wallet_balance =
                              @ + (IF u = seller THEN item.price ELSE 0)
                                - (IF u = buyer THEN item.price ELSE 0)]]
           /\ market' = [market EXCEPT ![r.item_id].status = "sold"]
           /\ orders' = orders \cup
                {[id |-> order_id, item_id |-> r.item_id, buyer_id |-> buyer,
                  seller_id |-> seller, amount |-> item.price,
                  status |-> "completed"]}
           /\ payments' = payments \cup
                {[id |-> Cardinality(payments) + 1, order_id |-> order_id,
                  amount |-> item.price, payment_method |-> "wallet",
                  status |-> "completed"]}
           /\ resp' = [resp EXCEPT ![c] =
                         BuyResp(c, r.item_id, 302, "Purchase successful!")]
    /\ pc' = [pc EXCEPT ![c] = "idle"]
    /\ rq' = [rq EXCEPT ![c] = NoRq]
    /\ UNCHANGED <<items, notifications, session, initial>>

BuyTry(c) ==
    /\ pc[c] = "buy_try"
    /\ LET r == rq[c]
           item == r.item
           buyer == r.user.id
           seller == item.seller_id
           order_id == Cardinality(orders) + 1
           payment_id == Cardinality(payments) + 1
       IN  IF OrderKwargs \subseteq OrderAttrs /\ PaymentKwargs \subseteq PaymentAttrs
           THEN /\ users' = [users EXCEPT
                               ![buyer].wallet_balance = r.user.wallet_balance - item.price,
                               ![seller].wallet_balance = users[seller].wallet_balance + item.price]
                /\ market' = [market EXCEPT ![r.item_id].status = "sold"]
                /\ orders' = orders \cup
                     {[id |-> order_id, item_id |-> r.item_id, buyer_id |-> buyer,
                       seller_id |-> seller, amount |-> item.price,
                       status |-> "completed"]}
                /\ payments' = payments \cup
                     {[id |-> payment_id, order_id |-> order_id, amount |-> item.price,
                       payment_method |-> "wallet", status |-> "completed"]}
                /\ resp' = [resp EXCEPT ![c] =
                              BuyResp(c, r.item_id, 302, "Purchase successful!")]
           ELSE /\ UNCHANGED <<users, market, orders, payments>>
                /\ resp' = [resp EXCEPT ![c] =
                              BuyResp(c, r.item_id, 302,
                                "An error occurred while processing the purchase. Please try again.")]
    /\ pc' = [pc EXCEPT ![c] = "idle"]
    /\ rq' = [rq EXCEPT ![c] = NoRq]
    /\ UNCHANGED <<items, notifications, session, initial>>

\* The marketplace store at the start: users with any wallet balance, rows of
\* market_items either available or already sold with their completed Order
\* and Payment, every client logged in.
FirstOther(u) == IF u = 1 THEN 2 ELSE 1

MarketRows ==
    [seller_id : UserIds, price : 1..MaxPrice, status : {"available", "sold"}]

InitMarket ==
    /\ \E w \in [UserIds -> 0..MaxBal] :
         users = [u \in UserIds |->
                    User(<<"user", u>>, <<"mail", u>>, <<"pw", u>>, w[u])]
    /\ market \in {m \in [MarketIds -> MarketRows] :
                     \A i \in MarketIds : m[i].seller_id <= i}
    /\ orders = {[id |-> i, item_id |-> i, buyer_id |-> FirstOther(market[i].seller_id),
                  seller_id |-> market[i].seller_id, amount |-> market[i].price,
                  status |-> "completed"] : i \in {j \in MarketIds : market[j].status = "sold"}}
    /\ payments = {[id |-> o.id, order_id |-> o.id, amount |-> o.amount,
                    payment_method |-> "wallet", status |-> "completed"] : o \in orders}
    /\ items = <<>>
    /\ notifications = {}
    /\ session \in [Clients -> UserIds]
    /\ pc = [c \in Clients |-> "idle"]
    /\ rq = [c \in Clients |-> NoRq]
    /\ resp = [c \in Clients |-> NoResp]
    /\ initial = [users |-> users, market |-> market,
                  orders |-> orders, payments |-> payments]

NextMarket ==
    \E c \in Clients :
        \/ \E item_id \in MarketReqIds : BuyBegin(c, item_id)
        \/ BuyGet(c)
        \/ BuyTry(c)

MarketSpec == InitMarket /\ [][NextMarket]_vars

\* ------------------------------------------------------ identity & session
\* request.form.get of a field the form does not carry
None == "<None>"

Falsy(v) == v = None \/ v = ""

Usernames == {"admin", "bob", "carol"}
Emails    == {"admin@example.com", "bob@example.com", "carol@example.com"}
Passwords == {"admin123", "secret"}

\* Registration forms: every full form, and the forms of one new user with
\* one field blank or missing.
FullForms ==
    [username : Usernames, email : Emails, password : {"secret"},
     first_name : {"A"}, last_name : {"A"}]

BobForm ==
    [username |-> "bob", email |-> "bob@example.com", password |-> "secret",
     first_name |-> "A", last_name |-> "A"]

RegisterForms ==
    FullForms \cup
    {[BobForm EXCEPT ![k] = v] :
        k \in {"username", "email", "password", "first_name", "last_name"},
        v \in {None, ""}}

\* Login forms: a registered name, names that may be registered, blank and
\* missing fields.
LoginUsernames == {"admin", "bob", "carol", "", None}

LoginPasswords == {"admin123", "secret", ""}

UserByUsername(u, username) == {i \in DOMAIN u : u[i].username = username}

UserByEmail(u, email) == {i \in DOMAIN u : u[i].email = email}

\* Variant of InsertUserOk: the users table without its unique constraints.
InsertUserOkNotUnique(u, form) ==
    \A k \in {"username", "email", "first_name", "last_name"} : form[k] # None

\* Whether the INSERT of a users row commits: the NOT NULL columns are given
\* and the unique constraints on username and on email hold.
InsertUserOk(u, form) ==
    /\ \A k \in {"username", "email", "first_name", "last_name"} : form[k] # None
    /\ UserByUsername(u, form.username) = {}
    /\ UserByEmail(u, form.email) = {}

\* The users table after the INSERT: the next autoincrement id, the default
\* wallet_balance 0.0.
InsertUser(u, form) ==
    u @@ (Cardinality(DOMAIN u) + 1 :>
            User(form.username, form.email, form.password, 0))

RegResp(op, form, status, flash) ==
    [op |-> op, status |-> status, flash |-> flash]

Registered == "Registration successful! Please log in."

\* app.py register, POST: validation and the two duplicate queries.
RegisterCheck(c, form) ==
    /\ pc[c] = "idle"
    /\ IF \E k \in DOMAIN form : Falsy(form[k])
       THEN /\ resp' = [resp EXCEPT ![c] =
                  RegResp("register", form, 200, "Please fill in all required fields.")]
            /\ UNCHANGED <<pc, rq>>
       ELSE IF UserByUsername(users, form.username) # {}
       THEN /\ resp' = [resp EXCEPT ![c] =
                  RegResp("register", form, 200, "Username already exists.")]
            /\ UNCHANGED <<pc, rq>>
       ELSE IF UserByEmail(users, form.email) # {}
       THEN /\ resp' = [resp EXCEPT ![c] =
                  RegResp("register", form, 200, "Email already registered.")]
            /\ UNCHANGED <<pc, rq>>
       ELSE /\ pc' = [pc EXCEPT ![c] = "register_commit"]
            /\ rq' = [rq EXCEPT ![c] = [op |-> "register", form |-> form]]
            /\ resp' = [resp EXCEPT ![c] = NoResp]
    /\ UNCHANGED <<store, session, initial>>

\* app.py register: db.session.add(user); commit; on an exception rollback
\* and the generic failure message.
RegisterCommit(c) ==
    /\ pc[c] = "register_commit"
    /\ LET form == rq[c].form IN
       IF InsertUserOk(users, form)
       THEN /\ users' = InsertUser(users, form)
            /\ resp' = [resp EXCEPT ![c] = RegResp("register", form, 302, Registered)]
       ELSE /\ UNCHANGED users
            /\ resp' = [resp EXCEPT ![c] =
                  RegResp("register", form, 200, "Registration failed. Please try again.")]
    /\ pc' = [pc EXCEPT ![c] = "idle"]
    /\ rq' = [rq EXCEPT ![c] = NoRq]
    /\ UNCHANGED <<items, notifications, market, orders, payments, session, initial>>

\* vercel_app.py register, POST: only the username query; the User is built
\* with generate_password_hash(password), which raises on a missing password.
VercelRegisterCheck(c, form) ==
    /\ pc[c] = "idle"
    /\ IF UserByUsername(users, form.username) # {}
       THEN /\ resp' = [resp EXCEPT ![c] =
                  RegResp("vercel_register", form, 200, "Username already exists")]
            /\ UNCHANGED <<pc, rq>>
       ELSE IF form.password = None
       THEN /\ resp' = [resp EXCEPT ![c] = RegResp("vercel_register", form, 500, "")]
            /\ UNCHANGED <<pc, rq>>
       ELSE /\ pc' = [pc EXCEPT ![c] = "vercel_register_commit"]
            /\ rq' = [rq EXCEPT ![c] = [op |-> "vercel_register", form |-> form]]
            /\ resp' = [resp EXCEPT ![c] = NoResp]
    /\ UNCHANGED <<store, session, initial>>

\* vercel_app.py register: add and commit with no handler around them; a
\* constraint violation ends the request with a 500 and nothing stored.
VercelRegisterCommit(c) ==
    /\ pc[c] = "vercel_register_commit"
    /\ LET form == rq[c].form IN
       IF InsertUserOk(users, form)
       THEN /\ users' = InsertUser(users, form)
            /\ resp' = [resp EXCEPT ![c] =
                  RegResp("vercel_register", form, 302, "Registration successful! Please login.")]
       ELSE /\ UNCHANGED users
            /\ resp' = [resp EXCEPT ![c] = RegResp("vercel_register", form, 500, "")]
    /\ pc' = [pc EXCEPT ![c] = "idle"]
    /\ rq' = [rq EXCEPT ![c] = NoRq]
    /\ UNCHANGED <<items, notifications, market, orders, payments, session, initial>>

InvalidLogin == "Invalid username or password."

\* Variant of LoginResult: an unknown username gets a message of its own.
LoginResultNamesUnknown(u, username, password) ==
    IF Falsy(username) \/ Falsy(password)
    THEN [status |-> 200, flash |-> "Please enter both username and password.", user_id |-> 0]
    ELSE IF UserByUsername(u, username) = {}
    THEN [status |-> 200, flash |-> "Unknown username.", user_id |-> 0]
    ELSE LET user == u[CHOOSE i \in UserByUsername(u, username) : TRUE]
         IN  IF check_password_hash(user.password_hash, password)
             THEN [status |-> 302, flash |-> "",
                   user_id |-> CHOOSE i \in UserByUsername(u, username) : TRUE]
             ELSE [status |-> 200, flash |-> InvalidLogin, user_id |-> 0]

\* app.py login, POST, on the users table u: the response, its flash message
\* and the user login_user is called with (0: none).
LoginResult(u, username, password) ==
    IF Falsy(username) \/ Falsy(password)
    THEN [status |-> 200, flash |-> "Please enter both username and password.", user_id |-> 0]
    ELSE LET found == UserByUsername(u, username)
         IN  IF found # {} /\ check_password_hash(
                                 u[CHOOSE i \in found : TRUE].password_hash, password)
             THEN [status |-> 302, flash |-> "", user_id |-> CHOOSE i \in found : TRUE]
             ELSE [status |-> 200, flash |-> InvalidLogin, user_id |-> 0]

Login(c, username, password) ==
    /\ pc[c] = "idle"
    /\ LET res == LoginResult(users, username, password) IN
       /\ session' = IF res.user_id # 0 THEN [session EXCEPT ![c] = res.user_id]
                     ELSE session
       /\ resp' = [resp EXCEPT ![c] =
                     [op |-> "login", username |-> username,
                      status |-> res.status, flash |-> res.flash]]
    /\ UNCHANGED <<store, pc, rq, initial>>

\* app.py logout (@login_required).
Logout(c) ==
    /\ pc[c] = "idle"
    /\ session[c] # 0
    /\ session' = [session EXCEPT ![c] = 0]
    /\ resp' = [resp EXCEPT ![c] =
                  [op |-> "logout", status |-> 302,
                   flash |-> "You have been logged out successfully."]]
    /\ UNCHANGED <<store, pc, rq, initial>>

\* The store as init_db.py leaves it: the default admin user, nobody logged in.
InitAuth ==
    /\ users = (1 :> User("admin", "admin@example.com", "admin123", 0))
    /\ items = <<>>
    /\ notifications = {}
    /\ market = <<>>
    /\ orders = {}
    /\ payments = {}
    /\ session = [c \in Clients |-> 0]
    /\ pc = [c \in Clients |-> "idle"]
    /\ rq = [c \in Clients |-> NoRq]
    /\ resp = [c \in Clients |-> NoResp]
    /\ initial = [users |-> users, market |-> market,
                  orders |-> orders, payments |-> payments]

NextRegister ==
    \E c \in Clients :
        \/ \E form \in RegisterForms : RegisterCheck(c, form)
        \/ RegisterCommit(c)
        \/ \E form \in RegisterForms : VercelRegisterCheck(c, form)
        \/ VercelRegisterCommit(c)

RegisterSpec == InitAuth /\ [][NextRegister]_vars

\* Login and logout against a users table that registrations have produced:
\* the admin alone, or with one or two registered users.
RegisteredTables ==
    LET admin == (1 :> User("admin", "admin@example.com", "admin123", 0))
        bob == [BobForm EXCEPT !.password = "secret"]
        carol == [BobForm EXCEPT !.username = "carol", !.email = "carol@example.com"]
    IN  {admin, InsertUser(admin, bob), InsertUser(InsertUser(admin, bob), carol)}

InitLogin ==
    /\ users \in RegisteredTables
    /\ items = <<>>
    /\ notifications = {}
    /\ market = <<>>
    /\ orders = {}
    /\ payments = {}
    /\ session = [c \in Clients |-> 0]
    /\ pc = [c \in Clients |-> "idle"]
    /\ rq = [c \in Clients |-> NoRq]
    /\ resp = [c \in Clients |-> NoResp]
    /\ initial = [users |-> users, market |-> market,
                  orders |-> orders, payments |-> payments]

NextLogin ==
    \E c \in Clients :
        \/ \E username \in LoginUsernames, password \in LoginPasswords :
              Login(c, username, password)
        \/ Logout(c)

LoginSpec == InitLogin /\ [][NextLogin]_vars

\* ----------------------------------------------------------------- listings
\* generate_item_id: the first 8 characters of a random uuid4; any id may
\* come out, one that a stored item has included.
ItemIds == {"0a1b2c3d", "4e5f6a7b"}

\* ids a request may name: ids that may be stored and one that never is
ItemReqIds == ItemIds \cup {"ffffffff"}

ItemTypes == {"lost", "found", "stolen"}

\* str.strip on the form values used here
Strip(s) ==
    IF s = " " THEN "" ELSE s

\* request.form.get("date_lost_found", "")
DateLostFound(form) ==
    IF form.date_lost_found = None THEN "" ELSE form.date_lost_found

\* Whether the store takes the string for the DateTime column
\* items.date_lost_found: PostgreSQL parses a date and rejects the empty
\* string (invalid input syntax for type timestamp).
TimestampOk(s) == s # ""

\* Column widths: items.title is String(200), notifications.title is
\* String(200); PostgreSQL refuses a longer value.
ItemTitleLen == 200

NotificationTitleLen == 200

RECURSIVE Repeat(_, _)
Repeat(s, n) == IF n = 0 THEN "" ELSE s \o Repeat(s, n - 1)

\* A title of the greatest length items.title takes
LongTitle == Repeat("W", ItemTitleLen)

WalletForm ==
    [title |-> "Wallet", description |-> "Brown", category |-> "Other",
     location |-> "Library", date_lost_found |-> "2024-05-01"]

\* Item forms: a complete form, one with a long title, forms with the first
\* or the last required field of whitespace only, blank or missing, and a
\* complete form without the date.
ItemForms ==
    {WalletForm,
     [WalletForm EXCEPT !.title = LongTitle],
     [WalletForm EXCEPT !.title = " "],
     [WalletForm EXCEPT !.title = ""],
     [WalletForm EXCEPT !.location = None],
     [WalletForm EXCEPT !.date_lost_found = None]}

RequiredFields == <<"title", "description", "category", "location">>

\* field.replace('_', ' ').title() for the required fields
FieldTitle(field) ==
    CASE field = "title" -> "Title"
      [] field = "description" -> "Description"
      [] field = "category" -> "Category"
      [] field = "location" -> "Location"

\* The flash of the required-fields loop: "<Field> is required" for the first
\* required field whose value is missing or empty; "" when none is.
RequiredMessage(form) ==
    LET missing == {k \in 1..Len(RequiredFields) : Falsy(form[RequiredFields[k]])}
    IN  IF missing = {} THEN ""
        ELSE LET k == CHOOSE j \in missing : \A l \in missing : j <= l
             IN  FieldTitle(RequiredFields[k]) \o " is required"

\* The Item the handlers build from a form that passed the required check.
ItemRow(item_type, form, user) ==
    [type |-> item_type,
     title |-> Strip(form.title),
     description |-> Strip(form.description),
     category |-> form.category,
     location |-> Strip(form.location),
     date_lost_found |-> DateLostFound(form),
     status |-> "active",
     user_id |-> user]

\* The k-th smallest element of a set of user ids (query order).
RECURSIVE Rank(_, _)
Rank(S, x) ==
    IF S = {} THEN 0
    ELSE LET m == CHOOSE y \in S : \A z \in S : y <= z
         IN  IF m = x THEN 1 ELSE 1 + Rank(S \ {m}, x)

\* create_notification_for_lost_item: one Notification for every user other
\* than the poster, titled "New Lost Item Posted: <title>", added in one
\* commit; when the store refuses the rows the exception is logged and no
\* notification is stored.
CreateNotificationForLostItem(u, notifs, item_id, item) ==
    LET others == {r \in DOMAIN u : r # item.user_id}
        title == "New Lost Item Posted: " \o item.title
    IN  IF others # {} /\ Len(title) > NotificationTitleLen
        THEN notifs
        ELSE notifs \cup
             {[id |-> Cardinality(notifs) + Rank(others, r), user_id |-> r,
               item_id |-> item_id, type |-> "lost_item", is_read |-> FALSE] : r \in others}

\* Variant of ItemIdFree: an items table without the primary key.
ItemIdUnchecked(its, new_id) == TRUE

\* The primary key items.id admits the INSERT of a row with this id.
ItemIdFree(its, new_id) == new_id \notin DOMAIN its

PostedMessage(item_type) ==
    IF item_type = "lost" THEN "Lost item posted successfully!"
    ELSE "Found item posted successfully!"

\* post_item for the logged-in user, a form and the id generate_item_id
\* returned: the items and notifications tables afterwards and the flash.
PostItemResult(its, notifs, u, user, item_type, form, new_id) ==
    IF item_type \notin {"lost", "found"}
    THEN [items |-> its, notifications |-> notifs, flash |-> "Invalid item type"]
    ELSE IF RequiredMessage(form) # ""
    THEN [items |-> its, notifications |-> notifs, flash |-> RequiredMessage(form)]
    ELSE IF \/ ~ItemIdFree(its, new_id)
            \/ ~TimestampOk(DateLostFound(form))
            \/ Len(Strip(form.title)) > ItemTitleLen
    THEN [items |-> its, notifications |-> notifs,
          flash |-> "An error occurred while posting the item. Please try again."]
    ELSE [items |-> its @@ (new_id :> ItemRow(item_type, form, user)),
          notifications |->
              IF item_type = "lost"
              THEN CreateNotificationForLostItem(u, notifs, new_id,
                                                 ItemRow(item_type, form, user))
              ELSE notifs,
          flash |-> PostedMessage(item_type)]

\* Variant of OwnedItem: the lookup by id alone.
AnyItem(its, user, item_id) == item_id \in DOMAIN its

\* Item.query.filter_by(id=item_id, user_id=current_user.id) finds a row
\* (first_or_404 aborts with 404 otherwise).
OwnedItem(its, user, item_id) ==
    item_id \in DOMAIN its /\ its[item_id].user_id = user

\* edit_item: the items table afterwards, the HTTP status and the flash.
EditItemResult(its, user, item_id, form) ==
    IF ~OwnedItem(its, user, item_id)
    THEN [items |-> its, status |-> 404, flash |-> ""]
    ELSE IF RequiredMessage(form) # ""
    THEN [items |-> its, status |-> 302, flash |-> RequiredMessage(form)]
    ELSE IF ~TimestampOk(DateLostFound(form)) \/ Len(Strip(form.title)) > ItemTitleLen
    THEN [items |-> its, status |-> 302,
          flash |-> "An error occurred while updating the item. Please try again."]
    ELSE [items |-> [its EXCEPT ![item_id] =
                        [@ EXCEPT !.title = Strip(form.title),
                                  !.description = Strip(form.description),
                                  !.category = form.category,
                                  !.location = Strip(form.location),
                                  !.date_lost_found = DateLostFound(form)]],
          status |-> 302, flash |-> "Item updated successfully!"]

\* delete_item: the DELETE is refused by the foreign key
\* notifications.item_id while a notification references the item.
DeleteItemResult(its, notifs, user, item_id) ==
    IF ~OwnedItem(its, user, item_id)
    THEN [items |-> its, status |-> 404, flash |-> ""]
    ELSE IF \E n \in notifs : n.item_id = item_id
    THEN [items |-> its, status |-> 302, flash |-> "Error deleting item"]
    ELSE [items |-> [i \in DOMAIN its \ {item_id} |-> its[i]],
          status |-> 302, flash |-> "Item deleted successfully"]

PostItem(c, item_type, form, new_id) ==
    /\ pc[c] = "idle"
    /\ session[c] # 0
    /\ LET res == PostItemResult(items, notifications, users, session[c],
                                 item_type, form, new_id) IN
       /\ items' = res.items
       /\ notifications' = res.notifications
       /\ resp' = [resp EXCEPT ![c] =
                     [op |-> "post_item", status |-> 302, flash |-> res.flash]]
    /\ UNCHANGED <<users, market, orders, payments, session, pc, rq, initial>>

EditItem(c, item_id, form) ==
    /\ pc[c] = "idle"
    /\ session[c] # 0
    /\ LET res == EditItemResult(items, session[c], item_id, form) IN
       /\ items' = res.items
       /\ resp' = [resp EXCEPT ![c] =
                     [op |-> "edit_item", item_id |-> item_id,
                      status |-> res.status, flash |-> res.flash]]
    /\ UNCHANGED <<users, notifications, market, orders, payments,
                   session, pc, rq, initial>>

DeleteItem(c, item_id) ==
    /\ pc[c] = "idle"
    /\ session[c] # 0
    /\ LET res == DeleteItemResult(items, notifications, session[c], item_id) IN
       /\ items' = res.items
       /\ resp' = [resp EXCEPT ![c] =
                     [op |-> "delete_item", item_id |-> item_id,
                      status |-> res.status, flash |-> res.flash]]
    /\ UNCHANGED <<users, notifications, market, orders, payments,
                   session, pc, rq, initial>>

\* login by a registered user who types the right password
LoginAs(c, u, password) ==
    /\ check_password_hash(users[u].password_hash, password)
    /\ Login(c, users[u].username, password)

\* The listings scenario: one browser, which logs in as any registered user
\* in turn; the handlers of this section run as
\* one step each.
ListingClients == {CHOOSE c \in Clients : \A d \in Clients : c <= d}

NextItems ==
    \E c \in ListingClients :
        \/ \E u \in DOMAIN users, password \in Passwords \cup LoginPasswords :
              LoginAs(c, u, password)
        \/ Logout(c)
        \/ \E item_type \in ItemTypes, form \in ItemForms, new_id \in ItemIds :
              PostItem(c, item_type, form, new_id)
        \/ \E item_id \in ItemReqIds, form \in ItemForms : EditItem(c, item_id, form)
        \/ \E item_id \in ItemReqIds : DeleteItem(c, item_id)

ItemsSpec == InitLogin /\ [][NextItems]_vars

\* ------------------------------------------------------ listings properties
\* C7: the users are the same N throughout, notifications are never removed
\* and a stored lost item was posted by its owner; so for every stored lost
\* item the notifications that reference it are exactly N - 1, one for each
\* user other than the poster and none for the poster.
C7_LostPostNotifiesEveryOtherUser ==
    \A i \in DOMAIN items :
        items[i].type = "lost"
        => LET refs == {n \in notifications : n.item_id = i}
           IN  /\ Cardinality(refs) = Cardinality(DOMAIN users) - 1
               /\ \A r \in DOMAIN users :
                    Cardinality({n \in refs : n.user_id = r})
                        = IF r = items[i].user_id THEN 0 ELSE 1

\* The error kind of a response: abort(404) is the not-found error, 403
\* would be the authorization error.
ErrorKind(status) ==
    IF status = 404 THEN "NotFoundError"
    ELSE IF status = 403 THEN "AuthorizationError"
    ELSE "none"

\* Editing and deleting an item of another user, for every logged-in user,
\* item and form: the error kind of both responses is kind and the items
\* table is as before.
NonOwnerRefusedWith(kind) ==
    \A user \in DOMAIN users, item_id \in DOMAIN items, form \in ItemForms :
        items[item_id].user_id # user
        => LET e == EditItemResult(items, user, item_id, form)
               d == DeleteItemResult(items, notifications, user, item_id)
           IN  /\ ErrorKind(e.status) = kind
               /\ ErrorKind(d.status) = kind
               /\ e.items = items
               /\ d.items = items

\* C10 as stated: edit and delete by a user who does not own the item fail
\* with AuthorizationError and leave the item unchanged.
C10_NonOwnerGetsAuthorizationError == NonOwnerRefusedWith("AuthorizationError")

\* C10 amended: they fail with the not-found error (404), as for an id that
\* has no item, and leave the item unchanged.
C10_NonOwnerGetsNotFound == NonOwnerRefusedWith("NotFoundError")

\* C10 witness: a user was answered 404 on editing or deleting an item that
\* exists and belongs to another user.
C10_Witness ==
    \E c \in Clients :
        /\ resp[c].op \in {"edit_item", "delete_item"}
        /\ resp[c].status = 404
        /\ session[c] # 0
        /\ resp[c].item_id \in DOMAIN items
        /\ items[resp[c].item_id].user_id # session[c]


\* C11: when the owner of a stored item requests its deletion, the item is
\* no longer in the items table afterwards, a lost item that notifications
\* of the fan-out reference included.
C11_OwnerDeleteRemovesItem ==
    \A item_id \in DOMAIN items :
        item_id \notin DOMAIN DeleteItemResult(items, notifications,
                                               items[item_id].user_id, item_id).items


\* ------------------------------------------------------------ notifications
\* Greatest notification id a mark_read request names
MaxNotificationId == 5

NotificationReqIds == 1..MaxNotificationId

\* Variant of OwnNotification: the lookup by id alone.
AnyNotification(notifs, user, notification_id) ==
    {n \in notifs : n.id = notification_id}

\* Notification.query.filter_by(id=notification_id, user_id=current_user.id)
OwnNotification(notifs, user, notification_id) ==
    {n \in notifs : n.id = notification_id /\ n.user_id = user}

\* mark_notification_read: first_or_404, then is_read = True and commit.
MarkReadResult(notifs, user, notification_id) ==
    LET found == OwnNotification(notifs, user, notification_id)
    IN  IF found = {}
        THEN [notifications |-> notifs, status |-> 404]
        ELSE [notifications |->
                  (notifs \ found) \cup {[n EXCEPT !.is_read = TRUE] : n \in found},
              status |-> 302]

MarkRead(c, notification_id) ==
    /\ pc[c] = "idle"
    /\ session[c] # 0
    /\ LET res == MarkReadResult(notifications, session[c], notification_id) IN
       /\ notifications' = res.notifications
       /\ resp' = [resp EXCEPT ![c] =
                     [op |-> "mark_notification_read",
                      notification_id |-> notification_id, status |-> res.status]]
    /\ UNCHANGED <<users, items, market, orders, payments, session, pc, rq, initial>>

\* The notifications scenario: one browser; users log in, post complete lost
\* or found items and mark notifications read.
NextNotifications ==
    \E c \in ListingClients :
        \/ \E u \in DOMAIN users, password \in Passwords \cup LoginPasswords :
              LoginAs(c, u, password)
        \/ Logout(c)
        \/ \E item_type \in {"lost", "found"}, new_id \in ItemIds :
              PostItem(c, item_type, WalletForm, new_id)
        \/ \E notification_id \in NotificationReqIds : MarkRead(c, notification_id)

NotificationsSpec == InitLogin /\ [][NextNotifications]_vars

\* C12: for every user and notification id, mark_read answers NotFoundError
\* and leaves every notification as it is when no notification has the id or
\* it belongs to another user; when it belongs to the caller its is_read
\* becomes true and no other notification changes.
C12_MarkReadOwnOnly ==
    \A user \in DOMAIN users, nid \in NotificationReqIds :
        LET res == MarkReadResult(notifications, user, nid)
            own == {n \in notifications : n.id = nid /\ n.user_id = user}
        IN  IF own = {}
            THEN /\ ErrorKind(res.status) = "NotFoundError"
                 /\ res.notifications = notifications
            ELSE /\ ErrorKind(res.status) = "none"
                 /\ \A n \in notifications :
                      IF n \in own
                      THEN [n EXCEPT !.is_read = TRUE] \in res.notifications
                      ELSE n \in res.notifications
                 /\ Cardinality(res.notifications) = Cardinality(notifications)

\* C12 witness: a user has marked a notification of theirs read, and was
\* answered 404 for a notification that exists and belongs to another user.
C12_Witness ==
    \E c \in Clients :
        /\ resp[c].op = "mark_notification_read"
        /\ resp[c].status = 404
        /\ \E n \in notifications :
             n.id = resp[c].notification_id /\ n.user_id # session[c] /\ ~n.is_read
        /\ \E n \in notifications : n.user_id = session[c] /\ n.is_read


\* ------------------------------------------------------------------ browse
\* In the browse scenario the text columns and the filters are sequences of
\* characters, so that ILIKE is computed character by character.
Lower(ch) ==
    CASE ch = "A" -> "a"
      [] ch = "B" -> "b"
      [] ch = "M" -> "m"
      [] OTHER -> ch

LowerText(t) == [k \in 1..Len(t) |-> Lower(t[k])]

\* text LIKE pattern: % stands for any run of characters, _ for any one.
RECURSIVE Like(_, _)
Like(t, pattern) ==
    IF pattern = <<>> THEN t = <<>>
    ELSE IF Head(pattern) = "%"
         THEN \E k \in 0..Len(t) : Like(SubSeq(t, k + 1, Len(t)), Tail(pattern))
    ELSE IF t = <<>> THEN FALSE
    ELSE /\ Head(pattern) = "_" \/ Head(pattern) = Head(t)
         /\ Like(Tail(t), Tail(pattern))

\* column.ilike(f"%{term}%")
ILikeContains(t, term) ==
    Like(LowerText(t), <<"%">> \o LowerText(term) \o <<"%">>)

\* term occurs in t, letter case ignored
ContainsText(t, term) ==
    \E k \in 0..(Len(t) - Len(term)) :
        SubSeq(LowerText(t), k + 1, k + Len(term)) = LowerText(term)

BrowseTitles == {<<"a", "b">>, <<"A", "x", "B">>}

BrowseLocations == {<<"M", "a">>, <<"b">>}

BrowseCategories == {"Electronics", "electronics"}

BrowseStatuses == {"active", "resolved"}

\* Item rows of the browse scenario; the statuses are those models.py names
\* for items.status.
BrowseRows ==
    [type : {"lost", "found"}, status : BrowseStatuses, category : BrowseCategories,
     title : BrowseTitles, description : {<<"x", "m">>}, location : BrowseLocations,
     user_id : {CHOOSE u \in UserIds : \A v \in UserIds : u <= v}]

\* request.args of browse_items
BrowseArgs ==
    [category : {"", "Electronics"},
     location : {<<>>, <<"m">>, <<"%">>},
     search : {<<>>, <<"a", "b">>, <<"a", "_", "b">>, <<"M">>}]

\* browse_items: the ids of the rows the query returns, or the redirect for
\* an item type other than lost and found.
BrowseResult(its, item_type, args) ==
    IF item_type \notin {"lost", "found"}
    THEN [status |-> 302, flash |-> "Invalid item type", items |-> {}]
    ELSE [status |-> 200, flash |-> "",
          items |->
              {i \in DOMAIN its :
                  /\ its[i].type = item_type
                  /\ its[i].status = "active"
                  /\ args.category # "" => its[i].category = args.category
                  /\ args.location # <<>> => ILikeContains(its[i].location, args.location)
                  /\ args.search # <<>> =>
                        \/ ILikeContains(its[i].title, args.search)
                        \/ ILikeContains(its[i].description, args.search)
                        \/ ILikeContains(its[i].location, args.search)}]

BrowseItems(c, item_type, args) ==
    /\ pc[c] = "idle"
    /\ LET res == BrowseResult(items, item_type, args) IN
       resp' = [resp EXCEPT ![c] =
                  [op |-> "browse_items", item_type |-> item_type, args |-> args,
                   status |-> res.status, items |-> res.items]]
    /\ UNCHANGED <<store, session, pc, rq, initial>>

InitBrowse ==
    /\ users = (1 :> User("admin", "admin@example.com", "admin123", 0))
    /\ items \in [ItemIds -> BrowseRows]
    /\ \E i \in ItemIds :
          items[i] = [type |-> "lost", status |-> "active", category |-> "Electronics",
                      title |-> <<"a", "b">>, description |-> <<"x", "m">>,
                      location |-> <<"M", "a">>, user_id |-> 1]
    /\ notifications = {}
    /\ market = <<>>
    /\ orders = {}
    /\ payments = {}
    /\ session = [c \in Clients |-> 0]
    /\ pc = [c \in Clients |-> "idle"]
    /\ rq = [c \in Clients |-> NoRq]
    /\ resp = [c \in Clients |-> NoResp]
    /\ initial = [users |-> users, market |-> market,
                  orders |-> orders, payments |-> payments]

NextBrowse ==
    \E c \in ListingClients, item_type \in ItemTypes, args \in BrowseArgs :
        BrowseItems(c, item_type, args)

BrowseSpec == InitBrowse /\ [][NextBrowse]_vars

\* C13: a browse of lost or found items returns exactly the items that are
\* active, of the requested type, whose category equals the category filter,
\* whose location contains the location filter and whose title, description
\* or location contains the search term, letter case ignored; an empty filter
\* restricts nothing.
C13_BrowseReturnsExactlyMatches ==
    \A c \in Clients :
        (resp[c].op = "browse_items" /\ resp[c].status = 200)
        => resp[c].items =
             {i \in DOMAIN items :
                 /\ items[i].status = "active"
                 /\ items[i].type = resp[c].item_type
                 /\ resp[c].args.category # "" => items[i].category = resp[c].args.category
                 /\ resp[c].args.location # <<>> =>
                       ContainsText(items[i].location, resp[c].args.location)
                 /\ resp[c].args.search # <<>> =>
                       \/ ContainsText(items[i].title, resp[c].args.search)
                       \/ ContainsText(items[i].description, resp[c].args.search)
                       \/ ContainsText(items[i].location, resp[c].args.search)}


\* C14: for the logged-in user, every item type lost or found, every form
\* and every fresh id: when title, description, category or location is
\* empty the post answers with the validation message and stores no item and
\* no notification; otherwise it stores exactly one new item, owned by the
\* caller and active, and a found post stores no notification.
C14_PostValidatesThenPersists ==
    \A c \in Clients :
        session[c] # 0 =>
        \A item_type \in {"lost", "found"}, form \in ItemForms,
           new_id \in ItemIds \ DOMAIN items :
            LET res == PostItemResult(items, notifications, users, session[c],
                                      item_type, form, new_id)
            IN  IF \E k \in 1..Len(RequiredFields) :
                       form[RequiredFields[k]] \in {"", None}
                THEN /\ res.items = items
                     /\ res.notifications = notifications
                     /\ res.flash = RequiredMessage(form)
                ELSE /\ DOMAIN res.items = DOMAIN items \cup {new_id}
                     /\ \A i \in DOMAIN items : res.items[i] = items[i]
                     /\ res.items[new_id].user_id = session[c]
                     /\ res.items[new_id].status = "active"
                     /\ res.items[new_id].type = item_type
                     /\ item_type = "found" => res.notifications = notifications


\* ----------------------------------------------------------------- listing
\* Columns of MarketItem and the seller backref of User.market_items.
MarketItemAttrs ==
    {"id", "title", "description", "price", "condition", "category", "image",
     "additional_images", "status", "created_at", "updated_at", "seller_id", "seller"}

\* Keywords sell_item passes to MarketItem(...).
SellKwargs ==
    {"title", "description", "price", "type", "condition", "subject", "author",
     "image", "seller_id"}

\* Columns of market_items that are NOT NULL and have no default.
MarketItemRequired == {"title", "description", "price", "condition", "category", "seller_id"}

\* float(text) for the price texts used here; -1 stands for ValueError.
ParseFloat(text) ==
    CASE text = "1" -> 1
      [] text = "2" -> 2
      [] OTHER -> -1

\* Forms of sell_item: complete ones, one without a title, one whose price is
\* no number.
SellForms ==
    [title : {"Book", None}, description : {"Notes"}, price : {"1", "abc"},
     type : {"book"}, condition : {"good"}]

\* sell_item for the logged-in user: the market_items table afterwards and
\* the flash. request.form["title"] raises for a missing field, float raises
\* for a text that is no number, the constructor raises for a keyword the
\* class does not have, the commit raises for a NOT NULL column left unset;
\* each ends in the except branch.
SellItemResult(mkt, user, form) ==
    IF /\ form.title # None /\ form.description # None
       /\ form.price # None /\ form.type # None
       /\ ParseFloat(form.price) >= 0
       /\ SellKwargs \subseteq MarketItemAttrs
       /\ MarketItemRequired \subseteq SellKwargs
    THEN [market |-> mkt @@ ((Cardinality(DOMAIN mkt) + 1) :>
                        [seller_id |-> user, price |-> ParseFloat(form.price),
                         status |-> "available"]),
          flash |-> "Item listed successfully!"]
    ELSE [market |-> mkt,
          flash |-> "An error occurred while listing the item. Please try again."]

SellItem(c, form) ==
    /\ pc[c] = "idle"
    /\ session[c] # 0
    /\ LET res == SellItemResult(market, session[c], form) IN
       /\ market' = res.market
       /\ resp' = [resp EXCEPT ![c] =
                     [op |-> "sell_item", status |-> 200, flash |-> res.flash]]
    /\ UNCHANGED <<users, items, notifications, orders, payments,
                   session, pc, rq, initial>>

NextSell == \E c \in Clients, form \in SellForms : SellItem(c, form)

SellSpec == InitMarket /\ [][NextSell]_vars

\* C16: for the logged-in user and every complete form, sell_item adds exactly
\* one market item, whose seller is the caller, whose price is the submitted
\* price and whose status is available, and leaves the other rows as they are.
C16_SellCreatesListing ==
    \A c \in Clients, form \in SellForms :
        (session[c] # 0 /\ form.title # None /\ ParseFloat(form.price) >= 0)
        => LET res == SellItemResult(market, session[c], form)
               new == DOMAIN res.market \ DOMAIN market
           IN  /\ Cardinality(new) = 1
               /\ \A i \in DOMAIN market :
                    i \in DOMAIN res.market /\ res.market[i] = market[i]
               /\ \A i \in new :
                    /\ res.market[i].seller_id = session[c]
                    /\ res.market[i].price = ParseFloat(form.price)
                    /\ res.market[i].status = "available"


\* C17: the items table holds one row per id; for the logged-in user, every
\* item type, every form and every id that a stored item already has, the
\* post does not succeed, the items table is as before and no notification
\* is added.
C17_IdCollisionFails ==
    \A c \in Clients :
        session[c] # 0 =>
        \A item_type \in ItemTypes, form \in ItemForms, new_id \in DOMAIN items :
            LET res == PostItemResult(items, notifications, users, session[c],
                                      item_type, form, new_id)
            IN  /\ res.items = items
                /\ res.notifications = notifications
                /\ res.flash \notin {PostedMessage("lost"), PostedMessage("found")}

\* C17 witness: a complete post has failed on the id of a stored item, which
\* has its notifications and no others.
C17_Witness ==
    \E c \in Clients :
        /\ resp[c].op = "post_item"
        /\ resp[c].flash = "An error occurred while posting the item. Please try again."
        /\ DOMAIN items # {}
        /\ Cardinality(DOMAIN users) = 2
        /\ \A i \in DOMAIN items : items[i].type = "lost"
        /\ Cardinality(notifications) = Cardinality(DOMAIN items)


\* C19: every stored item has a non-empty title, description, category and
\* location, whatever posts and edits produced it.
C19_StoredFieldsNonEmpty ==
    \A i \in DOMAIN items :
        \A k \in 1..Len(RequiredFields) : items[i][RequiredFields[k]] # ""

\* ---------------------------------------------------- identity properties
CommitPcs == {"register_commit", "vercel_register_commit"}

\* The form repeats the username or the email of a stored user.
Taken(u, form) ==
    UserByUsername(u, form.username) # {} \/ UserByEmail(u, form.email) # {}

\* C8: no two users share a username or an email; a registration whose
\* username or email is that of a stored user ends without the success
\* redirect and stores nothing; a user is stored only by a registration whose
\* username and email are both new, and stored users keep their username and
\* email.
C8_UsernamesAndEmailsUnique ==
    /\ [](\A i, j \in DOMAIN users :
            i # j => /\ users[i].username # users[j].username
                     /\ users[i].email # users[j].email)
    /\ [][/\ \A i \in DOMAIN users :
                /\ i \in DOMAIN users'
                /\ users'[i].username = users[i].username
                /\ users'[i].email = users[i].email
          /\ \A c \in Clients :
                (pc[c] \in CommitPcs /\ pc'[c] = "idle" /\ Taken(users, rq[c].form))
                => (users' = users /\ resp'[c].status # 302)
          /\ \A c \in Clients :
                ( /\ pc[c] = "idle" /\ pc'[c] = "idle"
                  /\ resp'[c] # resp[c]
                  /\ resp'[c].op \in {"register", "vercel_register"} )
                => (users' = users /\ resp'[c].status # 302)
          /\ users' # users =>
                \E c \in Clients :
                    /\ pc[c] \in CommitPcs /\ pc'[c] = "idle"
                    /\ ~Taken(users, rq[c].form)
                    /\ resp'[c].status = 302
                    /\ Cardinality(DOMAIN users') = Cardinality(DOMAIN users) + 1]_vars

\* C8 witness: two registrations passed the duplicate checks together; one
\* was stored and the other failed at its commit.
C8_Witness ==
    \E c1, c2 \in Clients :
        /\ resp[c1].op = "register" /\ resp[c1].flash = Registered
        /\ resp[c2].op = "register"
        /\ resp[c2].flash = "Registration failed. Please try again."
        /\ Cardinality(DOMAIN users) = 2

\* The users table without the users named username.
WithoutUser(u, username) ==
    [i \in {j \in DOMAIN u : u[j].username # username} |-> u[i]]

\* C9: for every users table reached, every non-empty username n and
\* password p: the login response on the table without a user n and on the
\* table with a user n whose password is not p are the same response with the
\* same message, and login_user is called in neither.
C9_LoginDoesNotRevealUsername ==
    \A n \in LoginUsernames, p \in LoginPasswords, q \in LoginPasswords :
        (~Falsy(n) /\ ~Falsy(p) /\ ~Falsy(q) /\ q # p)
        => LET without == WithoutUser(users, n)
               with == without @@ (0 :> User(n, "n@example.com", q, 0))
           IN  /\ LoginResult(without, n, p) = LoginResult(with, n, p)
               /\ LoginResult(with, n, p).user_id = 0

\* C9 witness: one client was refused for the registered name admin with a
\* wrong password, another for a name that is not registered; both got the
\* same message and neither has a session.
C9_Witness ==
    \E c1, c2 \in Clients :
        /\ resp[c1].op = "login" /\ resp[c2].op = "login"
        /\ resp[c1].username = "admin"
        /\ ~Falsy(resp[c2].username)
        /\ UserByUsername(users, resp[c2].username) = {}
        /\ resp[c1].flash = InvalidLogin /\ resp[c2].flash = InvalidLogin
        /\ resp[c1].status = resp[c2].status
        /\ session[c1] = 0 /\ session[c2] = 0

\* ------------------------------------------------- marketplace properties
Unavailable  == "This item is no longer available."
OwnItem      == "You cannot buy your own item."
Insufficient == "Insufficient wallet balance."
Purchased    == "Purchase successful!"
TryAgain     == "An error occurred while processing the purchase. Please try again."

StoreOfMarket == <<users, market, orders, payments>>

CompletedOrdersOf(i) == {o \in orders : o.item_id = i /\ o.status = "completed"}

PaymentsOf(i) == {p \in payments : \E o \in orders : o.item_id = i /\ p.order_id = o.id}

\* A client has finished a purchase request for item i.
BoughtBy(c, i) ==
    /\ pc[c] = "idle"
    /\ resp[c].op = "buy_item"
    /\ resp[c].item_id = i

\* In the store as first held, u can pay for the available item i of another user.
CanBuyInitially(u, i) ==
    /\ initial.market[i].status = "available"
    /\ initial.market[i].seller_id # u
    /\ initial.users[u].wallet_balance >= initial.market[i].price

\* C1: two purchase requests by different buyers with sufficient balance for
\* the same available item: once both have finished, one has succeeded and
\* the other was told the item is no longer available, and no item ever has
\* two completed Orders.
C1_ExactlyOnePurchaseSucceeds ==
    /\ \A i \in MarketIds : Cardinality(CompletedOrdersOf(i)) <= 1
    /\ \A c1, c2 \in Clients : \A i \in MarketIds :
         ( /\ c1 # c2
           /\ session[c1] # session[c2]
           /\ BoughtBy(c1, i) /\ BoughtBy(c2, i)
           /\ CanBuyInitially(session[c1], i)
           /\ CanBuyInitially(session[c2], i) )
         => {resp[c1].flash, resp[c2].flash} = {Purchased, Unavailable}

\* C2: a buyer B with balance b >= p buys the available item I (price p,
\* seller S # B) and no other request has run: afterwards B has b - p, S has
\* gained p, I is sold, and exactly one Order and one Payment reference I.
C2_PurchaseTransfers ==
    \A c \in Clients : \A i \in MarketIds :
        ( /\ BoughtBy(c, i)
          /\ CanBuyInitially(session[c], i)
          /\ \A d \in Clients \ {c} : pc[d] = "idle" /\ resp[d] = NoResp )
        => LET B == session[c]
               S == initial.market[i].seller_id
               p == initial.market[i].price
           IN  /\ users[B].wallet_balance = initial.users[B].wallet_balance - p
               /\ users[S].wallet_balance = initial.users[S].wallet_balance + p
               /\ market[i].status = "sold"
               /\ Cardinality(CompletedOrdersOf(i)) = 1
               /\ Cardinality(PaymentsOf(i)) = 1

\* C3: the sum of all wallet balances is the sum first stored, whatever
\* purchase requests have run and however they interleaved.
C3_WalletsConserved ==
    TotalWallets(users) = TotalWallets(initial.users)

\* C3 witness: one user with two sessions; the purchase of one affordable
\* item has run its try block while the purchase of another is about to.
C3_Witness ==
    \E c1, c2 \in Clients :
        /\ c1 # c2
        /\ session[c1] = session[c2]
        /\ pc[c1] = "idle" /\ resp[c1].op = "buy_item"
        /\ resp[c1].flash \in {Purchased, TryAgain}
        /\ pc[c2] = "buy_try"
        /\ rq[c2].item_id # resp[c1].item_id
        /\ CanBuyInitially(session[c1], resp[c1].item_id)
        /\ CanBuyInitially(session[c2], rq[c2].item_id)

\* C4: a purchase by a buyer whose balance is below the price of an existing,
\* available item of another user ends at the checks with the insufficient
\* balance message, and that step leaves items, wallets, Orders and Payments
\* as they were.
C4_InsufficientFundsNoEffect ==
    [][\A c \in Clients :
         ( /\ pc[c] = "buy_get"
           /\ pc'[c] # "buy_get"
           /\ rq[c].item_id \in DOMAIN market
           /\ market[rq[c].item_id].status = "available"
           /\ market[rq[c].item_id].seller_id # session[c]
           /\ users[session[c]].wallet_balance < market[rq[c].item_id].price )
         => /\ pc'[c] = "idle"
            /\ resp'[c].flash = Insufficient
            /\ StoreOfMarket' = StoreOfMarket]_vars

\* C4 witness: an insufficient-balance answer, with everything as first stored.
C4_Witness ==
    \E c \in Clients :
        /\ pc[c] = "idle" /\ resp[c].op = "buy_item"
        /\ resp[c].flash = Insufficient
        /\ users[session[c]].wallet_balance < market[resp[c].item_id].price
        /\ market[resp[c].item_id].status = "available"
        /\ StoreOfMarket = <<initial.users, initial.market, initial.orders, initial.payments>>

\* C5: the answer of a purchase is that of the first failing precondition in
\* the order: item exists, item available, buyer is not the seller, balance
\* covers the price.
C5_FirstFailingCheckWins ==
    [][\A c \in Clients :
         (pc[c] = "buy_get" /\ pc'[c] # "buy_get")
         => LET i == rq[c].item_id
                u == session[c]
            IN  IF i \notin DOMAIN market
                    THEN pc'[c] = "idle" /\ resp'[c].status = 404
                ELSE IF market[i].status # "available"
                    THEN pc'[c] = "idle" /\ resp'[c].flash = Unavailable
                ELSE IF market[i].seller_id = u
                    THEN pc'[c] = "idle" /\ resp'[c].flash = OwnItem
                ELSE IF users[u].wallet_balance < market[i].price
                    THEN pc'[c] = "idle" /\ resp'[c].flash = Insufficient
                ELSE pc'[c] = "buy_try"]_vars

\* C5 witness: a seller with insufficient balance was told "no longer
\* available" for their own sold item, and another such seller "cannot buy
\* your own item" for their own available item.
C5_Witness ==
    \E c1, c2 \in Clients :
        /\ BoughtBy(c1, resp[c1].item_id) /\ BoughtBy(c2, resp[c2].item_id)
        /\ resp[c1].item_id \in MarketIds /\ resp[c2].item_id \in MarketIds
        /\ LET i1 == resp[c1].item_id
               i2 == resp[c2].item_id
           IN  /\ market[i1].seller_id = session[c1]
               /\ market[i1].status = "sold"
               /\ users[session[c1]].wallet_balance < market[i1].price
               /\ resp[c1].flash = Unavailable
               /\ market[i2].seller_id = session[c2]
               /\ market[i2].status = "available"
               /\ users[session[c2]].wallet_balance < market[i2].price
               /\ resp[c2].flash = OwnItem

\* C6: the status of a market item only moves from available to sold and a
\* sold item stays sold; a purchase request that began when the item was
\* already sold ends with "no longer available" and changes no wallet, Order
\* or Payment.
C6_SoldStaysSold ==
    [][/\ \A i \in DOMAIN market :
            /\ i \in DOMAIN market'
            /\ market'[i].status \in {market[i].status, "sold"}
            /\ market[i].status = "sold" => market'[i].status = "sold"
       /\ \A c \in Clients :
            ( /\ pc[c] \in {"buy_get", "buy_try"}
              /\ rq[c].sold_at_begin
              /\ pc'[c] # pc[c] )
            => /\ StoreOfMarket' = StoreOfMarket
               /\ pc'[c] = "idle"
               /\ resp'[c].flash = Unavailable]_vars

\* C6 witness: a finished purchase attempt on a sold item, answered "no
\* longer available".
C6_Witness ==
    \E c \in Clients :
        /\ pc[c] = "idle" /\ resp[c].op = "buy_item"
        /\ resp[c].item_id \in DOMAIN market
        /\ market[resp[c].item_id].status = "sold"
        /\ resp[c].flash = Unavailable


\* Sum of the amounts of a set of orders
RECURSIVE SumAmounts(_)
SumAmounts(S) ==
    IF S = {} THEN 0
    ELSE LET o == CHOOSE x \in S : TRUE IN o.amount + SumAmounts(S \ {o})

\* C15: in every state a market item is sold exactly if one completed Order
\* references it; that Order has exactly one Payment, by wallet, completed
\* and of the same amount; every wallet is the balance first stored plus the
\* credits and minus the debits of the Orders created since; and a purchase
\* request that ends without success leaves item status, wallets, Orders and
\* Payments as they were before its step.
C15_PurchaseAllOrNothing ==
    /\ [](/\ \A i \in DOMAIN market :
               /\ market[i].status = "sold" <=> Cardinality(CompletedOrdersOf(i)) = 1
               /\ Cardinality({o \in orders : o.item_id = i}) <= 1
               /\ \A o \in CompletedOrdersOf(i) :
                    /\ o.amount = market[i].price
                    /\ Cardinality({p \in payments : p.order_id = o.id}) = 1
                    /\ \A p \in payments :
                         p.order_id = o.id =>
                            /\ p.payment_method = "wallet"
                            /\ p.status = "completed"
                            /\ p.amount = o.amount
          /\ \A p \in payments : \E o \in orders : p.order_id = o.id
          /\ \A u \in DOMAIN users :
               users[u].wallet_balance =
                   initial.users[u].wallet_balance
                   + SumAmounts({o \in orders \ initial.orders : o.seller_id = u})
                   - SumAmounts({o \in orders \ initial.orders : o.buyer_id = u}))
    /\ [][\A c \in Clients :
            (pc[c] # "idle" /\ pc'[c] = "idle" /\ resp'[c].flash # Purchased)
            => StoreOfMarket' = StoreOfMarket]_vars

\* C15 witness: a purchase of an affordable, available item of another user
\* has ended in the rollback branch while another item is sold with its
\* Order and Payment.
C15_Witness ==
    \E c \in Clients : \E i \in DOMAIN market :
        /\ pc[c] = "idle"
        /\ resp[c].op = "buy_item"
        /\ resp[c].flash = TryAgain
        /\ CanBuyInitially(session[c], resp[c].item_id)
        /\ market[resp[c].item_id].status = "available"
        /\ i # resp[c].item_id
        /\ market[i].status = "sold"
        /\ Cardinality(CompletedOrdersOf(i)) = 1


\* C18: no wallet balance is ever negative, whatever purchase requests have
\* run and however the checks and writes of two purchases by one buyer
\* interleaved.
C18_WalletsNeverNegative ==
    \A u \in DOMAIN users : users[u].wallet_balance >= 0

\* C18 witness: one buyer with two sessions has run two purchases of
\* different items to their end, each affordable alone and past the balance
\* check, the two prices together above the balance.
C18_Witness ==
    \E c1, c2 \in Clients :
        /\ c1 # c2
        /\ session[c1] = session[c2]
        /\ BoughtBy(c1, resp[c1].item_id) /\ BoughtBy(c2, resp[c2].item_id)
        /\ resp[c1].item_id # resp[c2].item_id
        /\ resp[c1].flash \in {Purchased, TryAgain}
        /\ resp[c2].flash \in {Purchased, TryAgain}
        /\ CanBuyInitially(session[c1], resp[c1].item_id)
        /\ CanBuyInitially(session[c2], resp[c2].item_id)
        /\ initial.users[session[c1]].wallet_balance
             < initial.market[resp[c1].item_id].price + initial.market[resp[c2].item_id].price


\* C20: in every state every Order has a buyer other than its seller, the
\* seller and the price of the market item it references, and status
\* completed; and no step changes or removes an Order.
C20_OrdersWellFormedAndKept ==
    /\ [](\A o \in orders :
            /\ o.buyer_id # o.seller_id
            /\ o.item_id \in DOMAIN market
            /\ o.seller_id = market[o.item_id].seller_id
            /\ o.amount = market[o.item_id].price
            /\ o.status = "completed")
    /\ [][orders \subseteq orders']_vars

\* C20 witness: the buyer of a stored Order has run a further purchase, of an
\* available item of another user, through its try block.
C20_Witness ==
    \E c \in Clients : \E o \in orders :
        /\ o.buyer_id = session[c]
        /\ BoughtBy(c, resp[c].item_id)
        /\ resp[c].item_id # o.item_id
        /\ resp[c].flash \in {Purchased, TryAgain}
        /\ initial.market[resp[c].item_id].status = "available"
        /\ initial.market[resp[c].item_id].seller_id # session[c]

====
